---- MODULE Spec2Model ----
(***************************************************************************)
(* Model of the CARS analyzer (app.py, gpt_generator.py): the keyword      *)
(* classifier analyze_errors, the ranking and top-error selection, and the *)
(* Streamlit session state that caches generated passages, gates the       *)
(* answers and accumulates the chat transcript of every practice unit.     *)
(*                                                                         *)
(* Text is a sequence of one-character strings, so that lower-casing and   *)
(* substring search are computed rather than assumed.                      *)
(***************************************************************************)
EXTENDS Integers, Sequences, FiniteSets, TLC

(* ------------------------------ bounds --------------------------------- *)
\* rows of an uploaded dataset
MaxRows == 3
\* chat prompts submitted during one session
MaxTurns == 2
\* generator calls that raise during one session
MaxFailures == 1

(* --------------------------- pattern catalog ---------------------------- *)
error_patterns ==
  << <<"Tone/Attitude",
        << <<"t", "o", "n", "e">>,
           <<"a", "t", "t", "i", "t", "u", "d", "e">>,
           <<"p", "e", "r", "s", "p", "e", "c", "t", "i", "v", "e">>,
           <<"v", "i", "e", "w", "p", "o", "i", "n", "t">>,
           <<"n", "e", "u", "t", "r", "a", "l">>,
           <<"n", "e", "g", "a", "t", "i", "v", "e">> >> >>,
     <<"Context Misread",
        << <<"c", "o", "n", "t", "e", "x", "t">>,
           <<"p", "a", "r", "a", "g", "r", "a", "p", "h">>,
           <<"l", "i", "n", "e">>,
           <<"s", "e", "c", "t", "i", "o", "n">>,
           <<"r", "e", "r", "e", "a", "d">>,
           <<"p", "a", "s", "s", "a", "g", "e">> >> >>,
     <<"Overthinking",
        << <<"a", "s", "s", "u", "m", "e", "d">>,
           <<"o", "v", "e", "r", "t", "h", "o", "u", "g", "h", "t">>,
           <<"b", "i", "a", "s">>,
           <<"s", "h", "o", "u", "l", "d", " ", "b", "e">>,
           <<"r", "e", "a", "s", "o", "n", "i", "n", "g">> >> >>,
     <<"Detail Missed",
        << <<"m", "i", "s", "s", "e", "d">>,
           <<"o", "v", "e", "r", "l", "o", "o", "k", "e", "d">>,
           <<"d", "i", "d", "n", "'", "t", " ", "n", "o", "t", "i", "c", "e">>,
           <<"n", "o", "t", " ", "s", "t", "a", "t", "e", "d">> >> >>,
     <<"Question Misinterpretation",
        << <<"m", "i", "s", "u", "n", "d", "e", "r", "s", "t", "o", "o", "d">>,
           <<"m", "i", "s", "i", "n", "t", "e", "r", "p", "r", "e", "t", "e", "d">>,
           <<"q", "u", "e", "s", "t", "i", "o", "n">> >> >>,
     <<"Structure Error",
        << <<"m", "a", "i", "n", " ", "i", "d", "e", "a">>,
           <<"f", "i", "r", "s", "t", " ", "s", "e", "n", "t", "e", "n", "c", "e">>,
           <<"p", "a", "r", "a", "g", "r", "a", "p", "h", " ", "s", "t", "r", "u", "c", "t", "u", "r", "e">> >> >>,
     <<"Vocabulary",
        << <<"w", "o", "r", "d">>,
           <<"t", "e", "r", "m">>,
           <<"p", "h", "r", "a", "s", "e">>,
           <<"m", "e", "a", "n", "i", "n", "g">>,
           <<"e", "m", "p", "i", "r", "i", "c", "a", "l">> >> >> >>

\* the keys of error_patterns, in iteration order
Categories == {error_patterns[k][1] : k \in 1..Len(error_patterns)}

samples ==
  [c \in Categories |->
     CASE c = "Tone/Attitude" -> "Read a passage and highlight all tone words (e.g., 'criticizes', 'admires')."
       [] c = "Context Misread" -> "Find a passage with multiple viewpoints. Map which paragraphs support each view."
       [] c = "Overthinking" -> "Do 5 questions where you must justify each answer with exact passage text."
       [] c = "Detail Missed" -> "Annotate a passage by underlining: dates, names, and specialized terms."
       [] c = "Question Misinterpretation" -> "Restate 3 hard questions in your own words before answering."
       [] c = "Structure Error" -> "Outline a passage's structure: main idea -> evidence -> conclusion."
       [] c = "Vocabulary" -> "Identify 5 unfamiliar words from passages and guess meanings from context."]

\* the text generate_sample_question returns for an empty report
GenericPractice == "Practice identifying main ideas in 3 passages today."

(* ------------------------------- text ----------------------------------- *)
UpperCase ==
  {"A", "B", "C", "D", "E", "F", "G", "H", "I", "J", "K", "L", "M", "N", "O", "P", "Q", "R", "S", "T", "U", "V", "W", "X", "Y", "Z"}


LowerOf ==
  [ch \in UpperCase |->
     CASE ch = "A" -> "a"
       [] ch = "B" -> "b"
       [] ch = "C" -> "c"
       [] ch = "D" -> "d"
       [] ch = "E" -> "e"
       [] ch = "F" -> "f"
       [] ch = "G" -> "g"
       [] ch = "H" -> "h"
       [] ch = "I" -> "i"
       [] ch = "J" -> "j"
       [] ch = "K" -> "k"
       [] ch = "L" -> "l"
       [] ch = "M" -> "m"
       [] ch = "N" -> "n"
       [] ch = "O" -> "o"
       [] ch = "P" -> "p"
       [] ch = "Q" -> "q"
       [] ch = "R" -> "r"
       [] ch = "S" -> "s"
       [] ch = "T" -> "t"
       [] ch = "U" -> "u"
       [] ch = "V" -> "v"
       [] ch = "W" -> "w"
       [] ch = "X" -> "x"
       [] ch = "Y" -> "y"
       [] ch = "Z" -> "z"]

\* str.lower()
lower(s) == [i \in 1..Len(s) |-> IF s[i] \in UpperCase THEN LowerOf[s[i]] ELSE s[i]]

\* a missing cell of the data frame (float nan)
NaN == <<"NaN">>

pd_isna(x) == x = NaN

pd_notna(x) == ~pd_isna(x)

\* str(x): a string is itself, the missing value prints as nan
str(x) == IF x = NaN THEN <<"n", "a", "n">> ELSE x

\* kw in text, scanning the start positions from pos on; 0 when kw does not occur
RECURSIVE find(_, _, _)
find(kw, text, pos) ==
  IF pos + Len(kw) - 1 > Len(text) THEN 0
  ELSE IF SubSeq(text, pos, pos + Len(kw) - 1) = kw THEN pos
  ELSE find(kw, text, pos + 1)

\* the operands of "in" exchanged
contains_swapped(kw, text) == find(text, kw, 1) # 0

contains(kw, text) == find(kw, text, 1) # 0

\* any(kw in error_text for kw in keywords), from the j-th keyword on
RECURSIVE any_kw(_, _, _)
any_kw(keywords, error_text, j) ==
  IF j > Len(keywords) THEN FALSE
  ELSE IF contains(keywords[j], error_text) THEN TRUE
  ELSE any_kw(keywords, error_text, j + 1)

(* ------------------------- parsing a passage ---------------------------- *)
\* "### Answer & Explanation"
Marker ==
  <<"#", "#", "#", " ", "A", "n", "s", "w", "e", "r", " ", "&", " ",
    "E", "x", "p", "l", "a", "n", "a", "t", "i", "o", "n">>

\* the text shown for the answers of a passage without the marker: the warning
\* sign and "Answers not available."
Unavailable ==
  <<"!", " ", "A", "n", "s", "w", "e", "r", "s", " ", "n", "o", "t", " ",
    "a", "v", "a", "i", "l", "a", "b", "l", "e", ".">>

Whitespace == {" ", "\n", "\t", "\r"}

\* str.strip()
strip(s) ==
  LET keep == {i \in 1..Len(s) : s[i] \notin Whitespace}
  IN IF keep = {} THEN <<>>
     ELSE SubSeq(s, CHOOSE i \in keep : \A j \in keep : i <= j,
                    CHOOSE i \in keep : \A j \in keep : i >= j)

\* str.split(sep): the pieces between the occurrences of sep, found from the
\* left without overlap
RECURSIVE split(_, _)
split(text, sep) ==
  LET at == find(sep, text, 1)
  IN IF at = 0 THEN <<text>>
     ELSE <<SubSeq(text, 1, at - 1)>> \o split(SubSeq(text, at + Len(sep), Len(text)), sep)

\* parts[0].strip()
passage_text_of(full_text) == strip(split(full_text, Marker)[1])

\* parts[1].strip() if len(parts) > 1 else the fixed text
answers_text_of(full_text) ==
  LET parts == split(full_text, Marker)
  IN IF Len(parts) > 1 THEN strip(parts[2]) ELSE Unavailable

(* ----------------------------- classifier ------------------------------- *)
\* A report (defaultdict(list)) is the sequence of its items <<key, list>>
\* in insertion order.
key_index(items, key) ==
  IF \E i \in 1..Len(items) : items[i][1] = key
  THEN CHOOSE i \in 1..Len(items) : items[i][1] = key
  ELSE 0

\* a new key put in front of the others
results_append_front(results, pattern, passage) ==
  LET i == key_index(results, pattern)
  IN IF i = 0 THEN <<<<pattern, <<passage>>>>>> \o results
     ELSE [results EXCEPT ![i][2] = Append(@, passage)]

\* a passage already listed under the pattern not listed again
results_append_unique(results, pattern, passage) ==
  LET i == key_index(results, pattern)
  IN IF i = 0 THEN Append(results, <<pattern, <<passage>>>>)
     ELSE IF \E n \in 1..Len(results[i][2]) : results[i][2][n] = passage THEN results
     ELSE [results EXCEPT ![i][2] = Append(@, passage)]

\* results[pattern].append(passage): a missing key is created at the end
results_append(results, pattern, passage) ==
  LET i == key_index(results, pattern)
  IN IF i = 0 THEN Append(results, <<pattern, <<passage>>>>)
     ELSE [results EXCEPT ![i][2] = Append(@, passage)]

\* error_text of a row
error_text_of(row) ==
  IF pd_notna(row.Why_I_Got_It_Wrong) THEN lower(str(row.Why_I_Got_It_Wrong)) ELSE <<>>

\* the list of every pattern looked up before the keywords are tried, which
\* creates the key
RECURSIVE scan_patterns_touching(_, _, _)
scan_patterns_touching(results, row, k) ==
  IF k > Len(error_patterns) THEN results
  ELSE scan_patterns_touching(
         IF any_kw(error_patterns[k][2], error_text_of(row), 1)
         THEN results_append(results, error_patterns[k][1], row.Passage_Title)
         ELSE IF key_index(results, error_patterns[k][1]) = 0
         THEN Append(results, <<error_patterns[k][1], <<>>>>)
         ELSE results,
         row, k + 1)

\* the loop over the patterns left at the first match
RECURSIVE scan_patterns_first(_, _, _)
scan_patterns_first(results, row, k) ==
  IF k > Len(error_patterns) THEN results
  ELSE IF any_kw(error_patterns[k][2], error_text_of(row), 1)
  THEN results_append(results, error_patterns[k][1], row.Passage_Title)
  ELSE scan_patterns_first(results, row, k + 1)

\* for pattern, keywords in error_patterns.items(), from the k-th item on
RECURSIVE scan_patterns(_, _, _)
scan_patterns(results, row, k) ==
  IF k > Len(error_patterns) THEN results
  ELSE scan_patterns(
         IF any_kw(error_patterns[k][2], error_text_of(row), 1)
         THEN results_append(results, error_patterns[k][1], row.Passage_Title)
         ELSE results,
         row, k + 1)

\* for _, row in df.iterrows(), from the r-th row on
RECURSIVE iter_rows(_, _, _)
iter_rows(results, frame, r) ==
  IF r > Len(frame) THEN results
  ELSE IF pd_isna(frame[r].Why_I_Got_It_Wrong) THEN iter_rows(results, frame, r + 1)
  ELSE iter_rows(scan_patterns(results, frame[r], 1), frame, r + 1)

analyze_errors(frame) == iter_rows(<<>>, frame, 1)

\* df.dropna(subset=["Why_I_Got_It_Wrong"]) and astype(str)
dropna(frame) == SelectSeq(frame, LAMBDA row : pd_notna(row.Why_I_Got_It_Wrong))

(* ----------------------------- aggregator ------------------------------- *)
\* an entry placed in front of the entries of its own length
sorted_insert_unstable(s, x) ==
  LET n == Cardinality({i \in 1..Len(s) : Len(s[i][2]) > Len(x[2])})
  IN SubSeq(s, 1, n) \o <<x>> \o SubSeq(s, n + 1, Len(s))

\* place x in a list sorted by descending length, behind every entry that is
\* at least as long (sorted(..., reverse=True) is stable)
sorted_insert(s, x) ==
  LET n == Cardinality({i \in 1..Len(s) : Len(s[i][2]) >= Len(x[2])})
  IN SubSeq(s, 1, n) \o <<x>> \o SubSeq(s, n + 1, Len(s))

RECURSIVE sorted_from(_, _, _)
sorted_from(acc, items, i) ==
  IF i > Len(items) THEN acc
  ELSE sorted_from(sorted_insert(acc, items[i]), items, i + 1)

\* sorted(error_report.items(), key=lambda x: len(x[1]), reverse=True)
sorted_items(items) == sorted_from(<<>>, items, 1)

\* sorted(...)[:3]
top_errors_of(report) ==
  LET s == sorted_items(report)
  IN SubSeq(s, 1, IF Len(s) < 3 THEN Len(s) ELSE 3)

\* the last item of maximal length
RECURSIVE max_from_last(_, _, _)
max_from_last(best, items, i) ==
  IF i > Len(items) THEN best
  ELSE max_from_last(IF Len(items[i][2]) >= Len(best[2]) THEN items[i] ELSE best, items, i + 1)

\* max(items, key=len of the list): the first item of maximal length
RECURSIVE max_from(_, _, _)
max_from(best, items, i) ==
  IF i > Len(items) THEN best
  ELSE max_from(IF Len(items[i][2]) > Len(best[2]) THEN items[i] ELSE best, items, i + 1)

\* the scan started from the last item
max_item_from_end(items) == max_from(items[Len(items)], items, 1)

max_item(items) == max_from(items[1], items, 2)

\* the bars of the chart: error_report.keys() against
\* [len(v) for v in error_report.values()]
chart_bars(report) == [i \in 1..Len(report) |-> <<report[i][1], Len(report[i][2])>>]

samples_get(c) == IF c \in DOMAIN samples THEN samples[c] ELSE ""

generate_sample_question(report) ==
  IF report = <<>> THEN GenericPractice
  ELSE LET top_error == max_item(report)
       IN samples_get(top_error[1]) \o " (Your top error: " \o top_error[1] \o ")"

(* ------------------------------ datasets -------------------------------- *)
Titles == {"P1", "P2"}

\* explanation cells: "Tone" (upper case, one category), "missed line word"
\* (three categories), "sword term" (two keywords of one category, one of
\* them inside a word), "ok" (no keyword), the empty text, and the missing
\* value
Explanations ==
  { <<"T", "o", "n", "e">>,
    <<"m", "i", "s", "s", "e", "d", " ", "l", "i", "n", "e", " ", "w", "o", "r", "d">>,
    <<"s", "w", "o", "r", "d", " ", "t", "e", "r", "m">>,
    <<"o", "k">>,
    <<>>,
    NaN }

Rows == [Passage_Title : Titles, Why_I_Got_It_Wrong : Explanations]

Datasets == UNION {[1..n -> Rows] : n \in 0..MaxRows}

(* ------------------------------- state ---------------------------------- *)
VARIABLES
  uploaded_file,    \* the uploaded dataset, or NoFile
  df,               \* the data frame of the current script run
  error_report,     \* analyze_errors(df), items in insertion order
  sample_question,  \* generate_sample_question(error_report), or None
  top_errors,       \* the three most frequent items of error_report
  session_state,    \* st.session_state: key -> value
  pc,               \* where the script run stands
  idx,              \* position of the practice loop in top_errors (from 0)
  clicked,          \* the button that reads True in this run, or NoKey
  prompt,           \* <<chat input key, text>> submitted for this run, or NoPrompt
  widgets,          \* the buttons and chat inputs this run has rendered
  request,          \* arguments of the generator call in flight, or NoRequest
  errors,           \* st.error messages shown by this run
  full_texts,       \* passage key -> the texts read from the cache for display
  passage_text,     \* parts[0].strip() of the last pass of the loop body, or NoText
  answers_text,     \* the answers text of the last pass of the loop body, or NoText
  gen_calls,        \* passage key -> number of generator calls without history
  gen_failed,       \* passage keys whose generation has raised
  reply_failed,     \* <<chat key, n>>: the reply to the n-th entry has raised
  queued,           \* <<button, prompt>> the user has set while a call was in flight, or NoEvent
  failures,         \* generator calls that have raised
  turns             \* chat prompts submitted

vars == <<uploaded_file, df, error_report, sample_question, top_errors,
          session_state, pc, idx, clicked, prompt, widgets, request,
          errors, full_texts, passage_text, answers_text, gen_calls, gen_failed,
              reply_failed, queued, failures, turns>>

run_vars == <<session_state, idx, clicked, prompt, widgets, request,
              errors, full_texts, passage_text, answers_text, gen_calls, gen_failed,
              reply_failed, queued, failures, turns>>

\* no value yet, for a text
None == "None"

\* the uploader holds no file; kept in the shape of a dataset so that it
\* compares with one
NoFile == <<[Passage_Title |-> "NoFile", Why_I_Got_It_Wrong |-> NaN]>>

\* no button pressed, no prompt submitted, no generator call in flight
NoKey == <<"none">>

NoPrompt == <<>>

\* no widget set while a generator call was in flight
NoEvent == <<>>

\* passage_text and answers_text before the first pass of the loop body
NoText == <<"NoText">>

\* conversation_history=None; the generator treats it as the empty list
NoHistory == <<>>

NoRequest == [error_type |-> None, conversation_history |-> NoHistory]

(* ---------------- the classifier and aggregator on their own ------------ *)
PureInit ==
  /\ uploaded_file \in Datasets
  /\ df = uploaded_file
  /\ error_report = <<>>
  /\ sample_question = None
  /\ top_errors = <<>>
  /\ session_state = <<>>
  /\ pc = "loaded"
  /\ idx = 0
  /\ clicked = NoKey
  /\ prompt = NoPrompt
  /\ widgets = {}
  /\ request = NoRequest
  /\ errors = <<>>
  /\ full_texts = <<>>
  /\ passage_text = NoText
  /\ answers_text = NoText
  /\ gen_calls = <<>>
  /\ gen_failed = {}
  /\ reply_failed = {}
  /\ queued = NoEvent
  /\ failures = 0
  /\ turns = 0

\* the cleaning the upload handler does before it classifies
DropNa ==
  /\ pc = "loaded"
  /\ df' = dropna(df)
  /\ pc' = "clean"
  /\ UNCHANGED <<uploaded_file, error_report, sample_question, top_errors, run_vars>>

\* analyze_errors, on the cleaned frame or directly on the loaded one
AnalyzeErrors ==
  /\ pc \in {"loaded", "clean"}
  /\ error_report' = analyze_errors(df)
  /\ pc' = "analyzed"
  /\ UNCHANGED <<uploaded_file, df, sample_question, top_errors, run_vars>>

SampleQuestion ==
  /\ pc = "analyzed"
  /\ sample_question' = generate_sample_question(error_report)
  /\ pc' = "sampled"
  /\ UNCHANGED <<uploaded_file, df, error_report, top_errors, run_vars>>

TopErrors ==
  /\ pc = "sampled"
  /\ top_errors' = top_errors_of(error_report)
  /\ pc' = "ranked"
  /\ UNCHANGED <<uploaded_file, df, error_report, sample_question, run_vars>>

PureNext == DropNa \/ AnalyzeErrors \/ SampleQuestion \/ TopErrors

PureSpec == PureInit /\ [][PureNext]_vars

(* ------------------------- the Streamlit session ------------------------ *)
\* what the generator returns for a passage request and for a follow-up
\* one with the answers behind the marker, one without the marker
Passages == {<<"P", " ">> \o Marker \o <<" ", "A">>, <<"Q">>}

Replies == {<<"r", "e", "p", "l", "y">>}

\* what the user types into a chat input
Prompts == {<<"q", "1">>, <<"q", "2">>}

\* the files the user uploads during the session
UploadChoices ==
  { <<[Passage_Title |-> "P1", Why_I_Got_It_Wrong |-> <<"o", "k">>]>>,
    <<[Passage_Title |-> "P1", Why_I_Got_It_Wrong |-> <<"T", "o", "n", "e">>],
      [Passage_Title |-> "P2", Why_I_Got_It_Wrong |-> <<"s", "w", "o", "r", "d">>]>> }

\* f'passage_{err_type}_{idx}' and the other keys of a practice unit
passage_key(err_type, i) == <<"passage", err_type, i>>

\* one chat key for every unit
chat_key_shared(err_type, i) == <<"chat", "all", 0>>

chat_key(err_type, i) == <<"chat", err_type, i>>

reveal_key(err_type, i) == <<"reveal", err_type, i>>

btn_key(err_type, i) == <<"btn", err_type, i>>

input_key(err_type, i) == <<"input", err_type, i>>

\* st.session_state[key] = value
store(ss, key, value) == (key :> value) @@ ss

\* count of a key in a ghost counter map, 0 when never counted
count_of(m, key) == IF key \in DOMAIN m THEN m[key] ELSE 0

\* the cache never consulted
needs_generation_always(ss, pk) == TRUE

\* if passage_key not in st.session_state
needs_generation(ss, pk) == pk \notin DOMAIN ss

\* the gate closed again by every run
init_reveal_reset(ss, rk) == store(ss, rk, FALSE)

\* if reveal_key not in st.session_state: st.session_state[reveal_key] = False
init_reveal(ss, rk) == IF rk \notin DOMAIN ss THEN store(ss, rk, FALSE) ELSE ss

\* the button is drawn while the answers are hidden
button_drawn(ss, rk) == ~ss[rk]

\* if st.button(...): st.session_state[reveal_key] = True
press_reveal(ss, rk, pressed) ==
  IF button_drawn(ss, rk) /\ pressed THEN store(ss, rk, TRUE) ELSE ss

\* if chat_key not in st.session_state: st.session_state[chat_key] = []
init_chat(ss, ck) == IF ck \notin DOMAIN ss THEN store(ss, ck, <<>>) ELSE ss

\* the transcript replaced by the new turn
append_turn_replacing(ss, ck, role, content) ==
  [ss EXCEPT ![ck] = <<[role |-> role, content |-> content]>>]

\* a turn put in front of the transcript
append_turn_front(ss, ck, role, content) ==
  [ss EXCEPT ![ck] = <<[role |-> role, content |-> content]>> \o @]

\* st.session_state[chat_key].append({"role": role, "content": content})
append_turn(ss, ck, role, content) ==
  [ss EXCEPT ![ck] = Append(@, [role |-> role, content |-> content])]

\* the first five entries instead of the last five
last5_oldest(transcript) ==
  SubSeq(transcript, 1, IF Len(transcript) > 5 THEN 5 ELSE Len(transcript))

\* transcript[-5:]
last5(transcript) ==
  SubSeq(transcript, IF Len(transcript) > 5 THEN Len(transcript) - 4 ELSE 1, Len(transcript))

\* the history without the passage in front
full_context_transcript_only(ss, pk, ck) == last5(ss[ck])

\* [{"role": "assistant", "content": passage}] + transcript[-5:]
full_context(ss, pk, ck) ==
  <<[role |-> "assistant", content |-> ss[pk]]>> \o last5(ss[ck])

\* the loop goes to the next unit, or the script ends behind the last one
AfterUnit ==
  /\ idx' = idx + 1
  /\ pc' = IF idx + 1 < Len(top_errors) THEN "loop" ELSE "idle"
  /\ clicked' = IF idx + 1 < Len(top_errors) THEN clicked ELSE NoKey
  /\ prompt' = IF idx + 1 < Len(top_errors) THEN prompt ELSE NoPrompt

\* the body of the practice loop from the read of the cached passage on, for
\* the unit at idx, on the session state ss
UnitBody(ss) ==
  LET err_type == top_errors[idx + 1][1]
      pk == passage_key(err_type, idx)
      rk == reveal_key(err_type, idx)
      ck == chat_key(err_type, idx)
      s1 == init_reveal(ss, rk)
      s2 == press_reveal(s1, rk, clicked = btn_key(err_type, idx))
      s3 == init_chat(s2, ck)
      asked == prompt # NoPrompt /\ prompt[1] = input_key(err_type, idx)
      s4 == IF asked THEN append_turn(s3, ck, "user", prompt[2]) ELSE s3
  IN /\ full_texts' = store(full_texts, pk, (IF pk \in DOMAIN full_texts THEN full_texts[pk] ELSE {}) \cup {ss[pk]})
     /\ passage_text' = passage_text_of(ss[pk])
     /\ answers_text' = answers_text_of(ss[pk])
     /\ widgets' = widgets \cup (IF button_drawn(s1, rk) THEN {btn_key(err_type, idx)} ELSE {})
                           \cup {input_key(err_type, idx)}
     /\ session_state' = s4
     /\ IF asked
        THEN /\ request' = [error_type |-> err_type, conversation_history |-> full_context(s4, pk, ck)]
             /\ pc' = "gen_reply"
             /\ UNCHANGED <<idx, clicked, prompt>>
        ELSE /\ request' = NoRequest
             /\ AfterUnit

\* the script from its top to the practice loop, for the uploaded file
\* and the widget values of this run
StartRun(file, btn, chat) ==
  \E frame \in {dropna(file)} : \E report \in {analyze_errors(frame)} :
  LET practice == file # NoFile /\ report # <<>>
  IN /\ widgets' = {}
     /\ errors' = <<>>
     /\ idx' = 0
     /\ df' = IF file = NoFile THEN <<>> ELSE frame
     /\ error_report' = IF file = NoFile THEN <<>> ELSE report
     /\ sample_question' = IF practice THEN generate_sample_question(report) ELSE None
     /\ top_errors' = IF practice THEN top_errors_of(report) ELSE <<>>
     /\ pc' = IF practice THEN "loop" ELSE "idle"
     /\ clicked' = IF practice THEN btn ELSE NoKey
     /\ prompt' = IF practice THEN chat ELSE NoPrompt

Init ==
  /\ uploaded_file = NoFile
  /\ df = <<>>
  /\ error_report = <<>>
  /\ sample_question = None
  /\ top_errors = <<>>
  /\ session_state = <<>>
  /\ pc = "idle"
  /\ idx = 0
  /\ clicked = NoKey
  /\ prompt = NoPrompt
  /\ widgets = {}
  /\ request = NoRequest
  /\ errors = <<>>
  /\ full_texts = <<>>
  /\ passage_text = NoText
  /\ answers_text = NoText
  /\ gen_calls = <<>>
  /\ gen_failed = {}
  /\ reply_failed = {}
  /\ queued = NoEvent
  /\ failures = 0
  /\ turns = 0

\* the user uploads a file
Upload(file) ==
  /\ pc = "idle"
  /\ queued = NoEvent
  /\ uploaded_file' = file
  /\ StartRun(file, NoKey, NoPrompt)
  /\ UNCHANGED <<session_state, request, full_texts, passage_text, answers_text,
                 reply_failed, queued, gen_calls, gen_failed, failures, turns>>

\* the user removes the uploaded file
ClearUpload ==
  /\ pc = "idle"
  /\ queued = NoEvent
  /\ uploaded_file # NoFile
  /\ uploaded_file' = NoFile
  /\ StartRun(NoFile, NoKey, NoPrompt)
  /\ UNCHANGED <<session_state, request, full_texts, passage_text, answers_text,
                 reply_failed, queued, gen_calls, gen_failed, failures, turns>>

\* the user asks for a rerun of the script
Rerun ==
  /\ pc = "idle"
  /\ queued = NoEvent
  /\ StartRun(uploaded_file, NoKey, NoPrompt)
  /\ UNCHANGED <<uploaded_file, session_state, request, full_texts, passage_text,
                 answers_text, reply_failed, queued, gen_calls,
                 gen_failed, failures, turns>>

\* the user presses a reveal button the last run has drawn
ClickReveal(b) ==
  /\ pc = "idle"
  /\ queued = NoEvent
  /\ b \in widgets
  /\ b[1] = "btn"
  /\ StartRun(uploaded_file, b, NoPrompt)
  /\ UNCHANGED <<uploaded_file, session_state, request, full_texts, passage_text,
                 answers_text, reply_failed, queued, gen_calls,
                 gen_failed, failures, turns>>

\* the user submits a prompt in a chat input the last run has drawn
ChatInput(c, text) ==
  /\ pc = "idle"
  /\ queued = NoEvent
  /\ c \in widgets
  /\ c[1] = "input"
  /\ turns < MaxTurns
  /\ turns' = turns + 1
  /\ StartRun(uploaded_file, NoKey, <<c, text>>)
  /\ UNCHANGED <<uploaded_file, session_state, request, full_texts, passage_text,
                 answers_text, reply_failed, queued, gen_calls,
                 gen_failed, failures>>

\* one pass of the practice loop, up to the generator call when the passage
\* of the unit is not cached, through the whole body when it is
EnterUnit ==
  /\ pc = "loop"
  /\ LET err_type == top_errors[idx + 1][1]
         pk == passage_key(err_type, idx)
     IN IF needs_generation(session_state, pk)
        THEN /\ request' = [error_type |-> err_type, conversation_history |-> NoHistory]
             /\ gen_calls' = store(gen_calls, pk, count_of(gen_calls, pk) + 1)
             /\ pc' = "gen_passage"
             /\ UNCHANGED <<session_state, idx, clicked, prompt, widgets, full_texts,
                            passage_text, answers_text>>
        ELSE /\ UnitBody(session_state)
             /\ UNCHANGED gen_calls
  /\ UNCHANGED <<uploaded_file, df, error_report, sample_question, top_errors,
                 errors, gen_failed, reply_failed, queued, failures, turns>>

\* generate_cars_content(err_type) returns: the passage is cached and the
\* body of the loop goes on
GenPassageReturn(text) ==
  /\ pc = "gen_passage"
  /\ UnitBody(store(session_state, passage_key(request.error_type, idx), text))
  /\ UNCHANGED <<uploaded_file, df, error_report, sample_question, top_errors,
                 errors, gen_calls, gen_failed, reply_failed, queued, failures, turns>>

\* the error text cached as if it were the passage
GenPassageFail_caching ==
  /\ pc = "gen_passage"
  /\ failures < MaxFailures
  /\ failures' = failures + 1
  /\ gen_failed' = gen_failed \cup {passage_key(request.error_type, idx)}
  /\ errors' = Append(errors, "Error processing file")
  /\ session_state' = store(session_state, passage_key(request.error_type, idx), <<"E", "r", "r", "o", "r">>)
  /\ request' = NoRequest
  /\ pc' = "idle"
  /\ clicked' = NoKey
  /\ prompt' = NoPrompt
  /\ UNCHANGED <<uploaded_file, df, error_report, sample_question, top_errors,
                 idx, widgets, full_texts, passage_text, answers_text, reply_failed, queued,
                 gen_calls, turns>>

\* generate_cars_content(err_type) raises: the handler around the whole
\* upload branch reports it and the script ends
GenPassageFail ==
  /\ pc = "gen_passage"
  /\ failures < MaxFailures
  /\ failures' = failures + 1
  /\ gen_failed' = gen_failed \cup {passage_key(request.error_type, idx)}
  /\ errors' = Append(errors, "Error processing file")
  /\ request' = NoRequest
  /\ pc' = "idle"
  /\ clicked' = NoKey
  /\ prompt' = NoPrompt
  /\ UNCHANGED <<uploaded_file, df, error_report, sample_question, top_errors, session_state,
                 idx, widgets, full_texts, passage_text, answers_text, reply_failed, queued,
                 gen_calls, turns>>

\* the follow-up call returns: the reply is appended and RerunException
\* starts the script again from the top, with no widget set
GenReplyReturn(text) ==
  /\ pc = "gen_reply"
  /\ session_state' = append_turn(session_state, chat_key(request.error_type, idx), "assistant", text)
  /\ request' = NoRequest
  /\ StartRun(uploaded_file, NoKey, NoPrompt)
  /\ UNCHANGED <<uploaded_file, full_texts, passage_text, answers_text, reply_failed, queued,
                 gen_calls, gen_failed, failures, turns>>

\* the error recorded in the transcript as the assistant's turn
GenReplyFail_recording ==
  /\ pc = "gen_reply"
  /\ failures < MaxFailures
  /\ failures' = failures + 1
  /\ errors' = Append(errors, "GPT failed")
  /\ reply_failed' = reply_failed \cup
       {<<chat_key(request.error_type, idx), Len(session_state[chat_key(request.error_type, idx)])>>}
  /\ session_state' = append_turn(session_state, chat_key(request.error_type, idx), "assistant",
                               <<"G", "P", "T", " ", "f", "a", "i", "l", "e", "d">>)
  /\ request' = NoRequest
  /\ AfterUnit
  /\ UNCHANGED <<uploaded_file, df, error_report, sample_question, top_errors,
                 widgets, full_texts, passage_text, answers_text, gen_calls, gen_failed,
                 queued, turns>>

\* the follow-up call raises: the error is shown and the loop goes on
GenReplyFail ==
  /\ pc = "gen_reply"
  /\ failures < MaxFailures
  /\ failures' = failures + 1
  /\ errors' = Append(errors, "GPT failed")
  /\ reply_failed' = reply_failed \cup
       {<<chat_key(request.error_type, idx), Len(session_state[chat_key(request.error_type, idx)])>>}
  /\ request' = NoRequest
  /\ AfterUnit
  /\ UNCHANGED <<uploaded_file, df, error_report, sample_question, top_errors, session_state,
                 widgets, full_texts, passage_text, answers_text, gen_calls, gen_failed,
                 queued, turns>>

\* the widget values a user can set on the page as the run has drawn it
Events ==
  {<<b, NoPrompt>> : b \in {w \in widgets : w[1] = "btn"}}
    \cup {<<NoKey, <<c, text>>>> : c \in {w \in widgets : w[1] = "input"}, text \in Prompts}

\* the widget set in the session state at once, not by the next run
ActDuringCall_atOnce(e) ==
  /\ pc \in {"gen_passage", "gen_reply"}
  /\ queued = NoEvent
  /\ e \in Events
  /\ IF e[2] = NoPrompt THEN turns' = turns ELSE turns < MaxTurns /\ turns' = turns + 1
  /\ session_state' =
       IF e[2] = NoPrompt
       THEN store(session_state, reveal_key(e[1][2], e[1][3]), TRUE)
       ELSE append_turn(session_state, chat_key(e[2][1][2], e[2][1][3]), "user", e[2][2])
  /\ UNCHANGED <<uploaded_file, df, error_report, sample_question, top_errors, pc, idx,
                 clicked, prompt, widgets, request, errors, full_texts, passage_text,
                 answers_text, reply_failed, queued, gen_calls, gen_failed, failures>>

\* the user presses a button or submits a prompt while a generator call is
\* in flight: the script is busy, the widget value waits for the next run
ActDuringCall(e) ==
  /\ pc \in {"gen_passage", "gen_reply"}
  /\ queued = NoEvent
  /\ e \in Events
  /\ IF e[2] = NoPrompt THEN turns' = turns ELSE turns < MaxTurns /\ turns' = turns + 1
  /\ queued' = e
  /\ UNCHANGED <<uploaded_file, df, error_report, sample_question, top_errors,
                 session_state, pc, idx, clicked, prompt, widgets, request, errors,
                 full_texts, passage_text, answers_text, reply_failed, gen_calls,
                 gen_failed, failures>>

\* the run in progress has ended: the script runs again with the widget
\* value that waited
DeliverQueued ==
  /\ pc = "idle"
  /\ queued # NoEvent
  /\ queued' = NoEvent
  /\ StartRun(uploaded_file, queued[1], queued[2])
  /\ UNCHANGED <<uploaded_file, session_state, request, full_texts, passage_text,
                 answers_text, reply_failed, gen_calls, gen_failed, failures, turns>>

Next ==
  \/ Rerun
  \/ ClearUpload
  \/ \E file \in UploadChoices : Upload(file)
  \/ \E b \in widgets : ClickReveal(b)
  \/ \E c \in widgets : \E text \in Prompts : ChatInput(c, text)
  \/ EnterUnit
  \/ \E text \in Passages : GenPassageReturn(text)
  \/ GenPassageFail
  \/ \E text \in Replies : GenReplyReturn(text)
  \/ GenReplyFail
  \/ \E e \in Events : ActDuringCall(e)
  \/ DeliverQueued

Spec == Init /\ [][Next]_vars

(* ---------------------- the parse of a passage on its own --------------- *)
\* most pieces of a generated text
MaxPieces == 4

Pieces == {<<" ">>, <<"P">>, <<"#">>, Marker}

RECURSIVE flatten(_, _)
flatten(pieces, i) == IF i > Len(pieces) THEN <<>> ELSE pieces[i] \o flatten(pieces, i + 1)

\* the texts the generator may return
Texts == {flatten(p, 1) : p \in UNION {[1..n -> Pieces] : n \in 0..MaxPieces}}

ParseInit ==
  /\ uploaded_file = NoFile
  /\ df = <<>>
  /\ error_report = <<>>
  /\ sample_question = None
  /\ top_errors = <<>>
  /\ session_state \in {passage_key("Vocabulary", 0) :> text : text \in Texts}
  /\ pc = "cached"
  /\ idx = 0
  /\ clicked = NoKey
  /\ prompt = NoPrompt
  /\ widgets = {}
  /\ request = NoRequest
  /\ errors = <<>>
  /\ full_texts = <<>>
  /\ passage_text = NoText
  /\ answers_text = NoText
  /\ gen_calls = <<>>
  /\ gen_failed = {}
  /\ reply_failed = {}
  /\ queued = NoEvent
  /\ failures = 0
  /\ turns = 0

\* the cached text is read and split into the passage and the answers
ParsePassage ==
  /\ pc = "cached"
  /\ LET full_text == session_state[passage_key("Vocabulary", 0)]
     IN /\ passage_text' = passage_text_of(full_text)
        /\ answers_text' = answers_text_of(full_text)
  /\ pc' = "parsed"
  /\ UNCHANGED <<uploaded_file, df, error_report, sample_question, top_errors,
                 session_state, idx, clicked, prompt, widgets, request, errors,
                 full_texts, gen_calls, gen_failed, reply_failed, queued, failures, turns>>

ParseNext == ParsePassage

ParseSpec == ParseInit /\ [][ParseNext]_vars

(* --------------------- one unit and a long conversation ----------------- *)
\* most prompts submitted in the long conversation
MaxChatTurns == 4

\* a file with one category, so the session has one unit
ChatFile == <<[Passage_Title |-> "P1", Why_I_Got_It_Wrong |-> <<"T", "o", "n", "e">>]>>

\* the user submits a prompt in the chat input of the unit
LongChatInput(c, text) ==
  /\ pc = "idle"
  /\ queued = NoEvent
  /\ c \in widgets
  /\ c[1] = "input"
  /\ turns < MaxChatTurns
  /\ turns' = turns + 1
  /\ StartRun(uploaded_file, NoKey, <<c, text>>)
  /\ UNCHANGED <<uploaded_file, session_state, request, full_texts, passage_text,
                 answers_text, reply_failed, queued, gen_calls, gen_failed, failures>>

ChatNext ==
  \/ Upload(ChatFile)
  \/ EnterUnit
  \/ GenPassageReturn(<<"Q">>)
  \/ \E c \in widgets : \E text \in Prompts : LongChatInput(c, text)
  \/ \E text \in Replies : GenReplyReturn(text)
  \/ GenReplyFail

ChatSpec == Init /\ [][ChatNext]_vars

(* ------------------- vocabulary of the properties ----------------------- *)
\* position of a category in the iteration order of error_patterns
CatalogPos(c) == CHOOSE k \in 1..Len(error_patterns) : error_patterns[k][1] = c

KeywordsOf(c) == error_patterns[CatalogPos(c)][2]

LowerCh(ch) == IF ch \in UpperCase THEN LowerOf[ch] ELSE ch

\* kw is a substring of the lower-cased text t
Occurs(kw, t) ==
  \E i \in 0..(Len(t) - Len(kw)) : \A j \in 1..Len(kw) : LowerCh(t[i + j]) = kw[j]

\* row r of frame carries an explanation that holds a keyword of category c
RowMatches(frame, r, c) ==
  /\ frame[r].Why_I_Got_It_Wrong # NaN
  /\ \E n \in 1..Len(KeywordsOf(c)) : Occurs(KeywordsOf(c)[n], frame[r].Why_I_Got_It_Wrong)

\* the list a report holds under a category, empty when the key is absent
ListOf(report, c) ==
  IF \E k \in 1..Len(report) : report[k][1] = c
  THEN report[CHOOSE k \in 1..Len(report) : report[k][1] = c][2]
  ELSE <<>>

\* position of a key among the items of a report
ReportPos(report, c) == CHOOSE k \in 1..Len(report) : report[k][1] = c

Occurrences(p, list) == Cardinality({i \in 1..Len(list) : list[i] = p})

\* first row of frame that matches category c
FirstRow(frame, c) ==
  CHOOSE r \in 1..Len(frame) :
    /\ RowMatches(frame, r, c)
    /\ \A q \in 1..(r - 1) : ~RowMatches(frame, q, c)

Classified == pc \in {"analyzed", "sampled", "ranked"}

(* ------------------- the units of the session --------------------------- *)
KeysOf(kind, ss) == {k \in DOMAIN ss : k[1] = kind}

\* the unit the practice loop stands at
CurErr == top_errors[idx + 1][1]

CurPassage == passage_key(CurErr, idx)

CurChat == chat_key(CurErr, idx)

\* the generator call in flight raises in this step
Raises == failures' = failures + 1

LastOf(transcript) == transcript[Len(transcript)]

Shown(message) == \E n \in 1..Len(errors) : errors[n] = message

(* ------------------------------ C1 -------------------------------------- *)
\* C1: a passage key whose generation never raised has had at most one
\* generator call without history; every read of the cached passage of a key
\* has given the same text; a cached passage is never removed or replaced.
C1_CallsAndReads ==
  /\ \A k \in DOMAIN gen_calls : k \notin gen_failed => gen_calls[k] <= 1
  /\ \A k \in DOMAIN full_texts : Cardinality(full_texts[k]) <= 1

C1_CacheKept ==
  \A k \in KeysOf("passage", session_state) :
    /\ k \in DOMAIN session_state'
    /\ session_state'[k] = session_state[k]

C1_AtMostOnceGeneration == [](C1_CallsAndReads) /\ [][C1_CacheKept]_vars

\* a unit generated by its only call, then revealed and chatted with, so
\* that several later runs have read its passage from the cache
C1_Witness ==
  \E k \in KeysOf("passage", session_state) :
    /\ k \notin gen_failed
    /\ gen_calls[k] = 1
    /\ reveal_key(k[2], k[3]) \in DOMAIN session_state
    /\ session_state[reveal_key(k[2], k[3])] = TRUE
    /\ chat_key(k[2], k[3]) \in DOMAIN session_state
    /\ Len(session_state[chat_key(k[2], k[3])]) >= 2
    /\ full_texts[k] = {session_state[k]}

(* ------------------------------ C2 -------------------------------------- *)
\* C2: when the follow-up call raises, the transcript of the unit stays the
\* one the user turn was appended to: nothing is added, nothing changed.
C2_FailedReplyKeepsTranscript ==
  [][(pc = "gen_reply" /\ Raises) =>
       /\ CurChat \in DOMAIN session_state'
       /\ session_state'[CurChat] = session_state[CurChat]
       /\ Len(session_state'[CurChat]) = Len(session_state[CurChat])]_vars

\* a follow-up call has raised in this run and a transcript ends with the
\* user turn
C2_Witness ==
  /\ pc # "gen_reply"
  /\ Shown("GPT failed")
  /\ \E k \in KeysOf("chat", session_state) :
       /\ session_state[k] # <<>>
       /\ LastOf(session_state[k]).role = "user"
       /\ \A n \in 1..Len(session_state[k]) : session_state[k][n].content \in Prompts \cup Replies

(* ------------------------------ C3 -------------------------------------- *)
\* C3: when the generation of a passage raises, the session state is left
\* as it was and one error is reported; a unit without a cached passage is
\* generated for by the next pass of the loop, whatever failed before; and a
\* call that returns caches the text of the generator.
C3_FailureLeavesState ==
  (pc = "gen_passage" /\ Raises) =>
    /\ session_state' = session_state
    /\ CurPassage \notin DOMAIN session_state'
    /\ errors' = Append(errors, "Error processing file")
    /\ pc' = "idle"

C3_CallAgain ==
  (pc = "loop" /\ CurPassage \notin DOMAIN session_state) =>
    /\ pc' = "gen_passage"
    /\ request' = [error_type |-> CurErr, conversation_history |-> NoHistory]
    /\ gen_calls'[CurPassage] = count_of(gen_calls, CurPassage) + 1
    /\ session_state' = session_state

C3_SuccessCaches ==
  (pc = "gen_passage" /\ pc' # "gen_passage" /\ ~Raises) =>
    /\ CurPassage \in DOMAIN session_state'
    /\ session_state'[CurPassage] \in Passages

C3_FailedGenerationRetried ==
  [][C3_FailureLeavesState /\ C3_CallAgain /\ C3_SuccessCaches]_vars

\* a passage whose generation raised was generated by a later call
C3_Witness ==
  \E k \in gen_failed :
    /\ k \in DOMAIN session_state
    /\ session_state[k] \in Passages
    /\ gen_calls[k] >= 2

(* ------------------------------ C4 -------------------------------------- *)
\* C4: while a follow-up call is in flight the transcript already ends with
\* the user turn, which is also the last entry of the history sent; a
\* transcript changes only by one entry added at its end; the user turn is
\* added by the step that issues the call; and when the call raises the
\* user turn is still the last entry.
C4_UserTurnPersisted ==
  pc = "gen_reply" =>
    /\ prompt # NoPrompt
    /\ CurChat \in DOMAIN session_state
    /\ session_state[CurChat] # <<>>
    /\ LastOf(session_state[CurChat]) = [role |-> "user", content |-> prompt[2]]
    /\ LastOf(request.conversation_history) = [role |-> "user", content |-> prompt[2]]

C4_AppendAtEnd ==
  \A k \in KeysOf("chat", session_state) :
    /\ k \in DOMAIN session_state'
    /\ \/ session_state'[k] = session_state[k]
       \/ /\ Len(session_state'[k]) = Len(session_state[k]) + 1
          /\ SubSeq(session_state'[k], 1, Len(session_state[k])) = session_state[k]

C4_IssueAppends ==
  (pc # "gen_reply" /\ pc' = "gen_reply") =>
    session_state'[CurChat] =
      Append(IF CurChat \in DOMAIN session_state THEN session_state[CurChat] ELSE <<>>,
             [role |-> "user", content |-> prompt[2]])

C4_FailureKeepsUserTurn ==
  (pc = "gen_reply" /\ Raises) =>
    LastOf(session_state'[CurChat]) = [role |-> "user", content |-> prompt[2]]

C4_UserTurnBeforeRequest ==
  [](C4_UserTurnPersisted) /\ [][C4_AppendAtEnd /\ C4_IssueAppends /\ C4_FailureKeepsUserTurn]_vars

\* a prompt was answered and the call for the next prompt has raised: the
\* transcript holds user, assistant, user
C4_Witness ==
  /\ pc # "gen_reply"
  /\ Shown("GPT failed")
  /\ \E k \in KeysOf("chat", session_state) :
       /\ Len(session_state[k]) = 3
       /\ session_state[k][1].role = "user"
       /\ session_state[k][2].role = "assistant"
       /\ session_state[k][3].role = "user"
       /\ session_state[k][1].content # session_state[k][3].content

(* ------------------------------ C5 -------------------------------------- *)
\* C5: a reveal flag is created false, turns true only in a run in which the
\* button of its unit is pressed, and once true stays true; no flag is
\* ever removed.
C5_RevealStep ==
  \A k \in KeysOf("reveal", session_state) \cup KeysOf("reveal", session_state') :
    /\ k \notin DOMAIN session_state => session_state'[k] = FALSE
    /\ k \in DOMAIN session_state =>
         /\ k \in DOMAIN session_state'
         /\ session_state[k] = TRUE => session_state'[k] = TRUE
         /\ (session_state[k] = FALSE /\ session_state'[k] = TRUE) =>
              clicked = btn_key(k[2], k[3])

C5_RevealMonotonic == [][C5_RevealStep]_vars

\* a unit was revealed and has been chatted with and run over since
C5_Witness ==
  /\ pc = "idle"
  /\ \E k \in KeysOf("reveal", session_state) :
       /\ session_state[k] = TRUE
       /\ btn_key(k[2], k[3]) \notin widgets
       /\ Len(session_state[chat_key(k[2], k[3])]) >= 2
  /\ \E k \in KeysOf("reveal", session_state) : session_state[k] = FALSE

(* ------------------------------ C6 -------------------------------------- *)
\* C6: the ranking holds at most three items, all of them items of the
\* report and no item twice, in descending order of list length, items of
\* equal length in the order of their keys in the report; no item left out
\* is longer than an item returned; the empty report ranks to nothing.
C6_RankTopThree ==
  pc = "ranked" =>
    /\ Len(top_errors) <= 3
    /\ \A i \in 1..Len(top_errors) :
         \E k \in 1..Len(error_report) : top_errors[i] = error_report[k]
    /\ \A i, j \in 1..Len(top_errors) :
         i < j =>
           /\ top_errors[i][1] # top_errors[j][1]
           /\ Len(top_errors[i][2]) >= Len(top_errors[j][2])
           /\ Len(top_errors[i][2]) = Len(top_errors[j][2]) =>
                ReportPos(error_report, top_errors[i][1]) < ReportPos(error_report, top_errors[j][1])
    /\ \A k \in 1..Len(error_report) :
         (\A i \in 1..Len(top_errors) : top_errors[i] # error_report[k]) =>
           /\ Len(top_errors) = 3
           /\ \A i \in 1..Len(top_errors) : Len(error_report[k][2]) <= Len(top_errors[i][2])
    /\ error_report = <<>> => top_errors = <<>>

\* a report of four categories ranked: one is left out, a longer list leads
\* and two lists of equal length follow
C6_Witness ==
  /\ pc = "ranked"
  /\ Len(error_report) >= 4
  /\ Len(top_errors) = 3
  /\ Len(top_errors[1][2]) > Len(top_errors[2][2])
  /\ Len(top_errors[2][2]) = Len(top_errors[3][2])

(* ------------------------------ C7 -------------------------------------- *)
\* C7 as stated: in the ranking, categories of equal count stand in the
\* iteration order of the pattern catalog.
C7_TiesInCatalogOrder ==
  pc = "ranked" =>
    \A i, j \in 1..Len(top_errors) :
      (i < j /\ Len(top_errors[i][2]) = Len(top_errors[j][2])) =>
        CatalogPos(top_errors[i][1]) < CatalogPos(top_errors[j][1])

\* C7 amended: in the ranking, categories of equal count stand in the order
\* in which they first matched: by the first row of the frame that matches
\* the category and, for categories first matched by the same row, by the
\* iteration order of the pattern catalog.
C7_TiesInFirstMatchOrder ==
  pc = "ranked" =>
    \A i, j \in 1..Len(top_errors) :
      (i < j /\ Len(top_errors[i][2]) = Len(top_errors[j][2])) =>
        LET ri == FirstRow(df, top_errors[i][1])
            rj == FirstRow(df, top_errors[j][1])
        IN \/ ri < rj
           \/ ri = rj /\ CatalogPos(top_errors[i][1]) < CatalogPos(top_errors[j][1])

\* a tie that the first matching row decides against the catalog order
C7_Witness ==
  /\ pc = "ranked"
  /\ \E i, j \in 1..Len(top_errors) :
       /\ i < j
       /\ Len(top_errors[i][2]) = Len(top_errors[j][2])
       /\ CatalogPos(top_errors[i][1]) > CatalogPos(top_errors[j][1])
       /\ FirstRow(df, top_errors[i][1]) < FirstRow(df, top_errors[j][1])

(* ------------------------------ C8 -------------------------------------- *)
\* the text generate_sample_question builds for a category
DrillFor(c) == samples[c] \o " (Your top error: " \o c \o ")"

\* C8: for the empty report the generic practice text is returned, which is
\* the text of no category; for any other report the text is that of a
\* category whose list is of maximal length, the first such in the report.
C8_TopError ==
  pc \in {"sampled", "ranked"} =>
    /\ error_report = <<>> =>
         /\ sample_question = GenericPractice
         /\ \A c \in Categories : sample_question # DrillFor(c)
    /\ error_report # <<>> =>
         \E k \in 1..Len(error_report) :
           /\ sample_question = DrillFor(error_report[k][1])
           /\ \A m \in 1..Len(error_report) : Len(error_report[m][2]) <= Len(error_report[k][2])
           /\ \A m \in 1..(k - 1) : Len(error_report[m][2]) < Len(error_report[k][2])

\* several categories tie at the maximum and a shorter list stands before them
C8_Witness ==
  /\ pc = "sampled"
  /\ \E k, m \in 1..Len(error_report) :
       /\ 1 < k /\ k < m
       /\ Len(error_report[1][2]) < Len(error_report[k][2])
       /\ Len(error_report[k][2]) = Len(error_report[m][2])
       /\ \A n \in 1..Len(error_report) : Len(error_report[n][2]) <= Len(error_report[k][2])
       /\ sample_question = DrillFor(error_report[k][1])

(* ------------------------------ C9 -------------------------------------- *)
\* C9: every passage listed in the report is the title of a row whose
\* explanation is neither missing nor empty, and the rows without an
\* explanation do not disturb the classification: the report of a frame is
\* a list of categories with their titles, the one its cleaned frame gets.
C9_SkipMissing ==
  Classified =>
    /\ \A k \in 1..Len(error_report) :
         \A n \in 1..Len(error_report[k][2]) :
           \E r \in 1..Len(uploaded_file) :
             /\ uploaded_file[r].Passage_Title = error_report[k][2][n]
             /\ uploaded_file[r].Why_I_Got_It_Wrong # NaN
             /\ uploaded_file[r].Why_I_Got_It_Wrong # <<>>
    /\ \A k \in 1..Len(error_report) :
         /\ error_report[k][1] \in Categories
         /\ \A n \in 1..Len(error_report[k][2]) : error_report[k][2][n] \in Titles
    /\ error_report = analyze_errors(dropna(uploaded_file))

\* an uncleaned frame was classified: one title stands only in a row without
\* explanation, another only in a row with an empty one, a third row matched
C9_Witness ==
  /\ pc = "analyzed"
  /\ df = uploaded_file
  /\ error_report # <<>>
  /\ \E r, q \in 1..Len(df) :
       /\ df[r].Why_I_Got_It_Wrong \in {NaN, <<>>}
       /\ df[q].Why_I_Got_It_Wrong \notin {NaN, <<>>}
       /\ df[r].Passage_Title # df[q].Passage_Title
       /\ \A u \in 1..Len(df) :
            df[u].Passage_Title = df[r].Passage_Title => df[u].Why_I_Got_It_Wrong \in {NaN, <<>>}
  /\ \E r \in 1..Len(df) : df[r].Why_I_Got_It_Wrong = NaN
  /\ \E r \in 1..Len(df) : df[r].Why_I_Got_It_Wrong = <<>>

(* ------------------------------ C10 ------------------------------------- *)
\* C10: under every category of the catalog a title is listed once for each
\* row of that title whose lower-cased explanation holds a keyword of the
\* category, and the report has no other key.
C10_MultiLabel ==
  Classified =>
    /\ \A k \in 1..Len(error_report) : error_report[k][1] \in Categories
    /\ \A c \in Categories :
         \A p \in Titles :
           Occurrences(p, ListOf(error_report, c)) =
             Cardinality({r \in 1..Len(df) : df[r].Passage_Title = p /\ RowMatches(df, r, c)})

\* a row with keywords of two categories is listed under both, and a row
\* with an explanation that holds no keyword is listed nowhere
C10_Witness ==
  /\ pc = "analyzed"
  /\ \E r \in 1..Len(df) :
       \E c, d \in Categories :
         /\ c # d
         /\ RowMatches(df, r, c) /\ RowMatches(df, r, d)
         /\ Occurrences(df[r].Passage_Title, ListOf(error_report, c)) = 1
         /\ Occurrences(df[r].Passage_Title, ListOf(error_report, d)) = 1
  /\ \E r \in 1..Len(df) :
       /\ df[r].Why_I_Got_It_Wrong \notin {NaN, <<>>}
       /\ \A c \in Categories :
            /\ ~RowMatches(df, r, c)
            /\ Occurrences(df[r].Passage_Title, ListOf(error_report, c)) = 0

(* ------------------------------ C14 ------------------------------------- *)
\* the n-th row of frame that matches category c
NthMatch(frame, c, n) ==
  CHOOSE r \in 1..Len(frame) :
    /\ RowMatches(frame, r, c)
    /\ Cardinality({q \in 1..r : RowMatches(frame, q, c)}) = n

\* C14: the list of a category holds one entry for every row that matches
\* the category, however many keywords of it the row holds, and the entries
\* stand in the order of the rows; a title is listed as often as it matches.
C14_RowOrderKept ==
  pc = "analyzed" =>
    \A c \in Categories :
      LET list == ListOf(error_report, c)
          hits == {r \in 1..Len(df) : RowMatches(df, r, c)}
      IN /\ Len(list) = Cardinality(hits)
         /\ \A n \in 1..Len(list) : list[n] = df[NthMatch(df, c, n)].Passage_Title

\* a list that names one title twice around another title, one of its rows
\* holding two keywords of the category
C14_Witness ==
  /\ pc = "analyzed"
  /\ \E k \in 1..Len(error_report) :
       /\ Len(error_report[k][2]) = 3
       /\ error_report[k][2][1] = error_report[k][2][3]
       /\ error_report[k][2][1] # error_report[k][2][2]
       /\ \E r \in 1..Len(df) :
            \E n, m \in 1..Len(KeywordsOf(error_report[k][1])) :
              /\ n # m
              /\ df[r].Why_I_Got_It_Wrong # NaN
              /\ Occurs(KeywordsOf(error_report[k][1])[n], df[r].Why_I_Got_It_Wrong)
              /\ Occurs(KeywordsOf(error_report[k][1])[m], df[r].Why_I_Got_It_Wrong)

(* ------------------------------ C16 ------------------------------------- *)
\* C16: for a report that is not empty the sample question names the
\* category of the first item of the ranking.
C16_TopErrorLeadsRanking ==
  (pc = "ranked" /\ error_report # <<>>) =>
    /\ top_errors # <<>>
    /\ sample_question = DrillFor(top_errors[1][1])

\* several categories tie at the maximum and the first of them is not the
\* first item of the report
C16_Witness ==
  /\ pc = "ranked"
  /\ \E k, m \in 1..Len(error_report) :
       /\ 1 < k /\ k < m
       /\ Len(error_report[1][2]) < Len(error_report[k][2])
       /\ Len(error_report[k][2]) = Len(error_report[m][2])
       /\ \A n \in 1..Len(error_report) : Len(error_report[n][2]) <= Len(error_report[k][2])
       /\ top_errors[1][1] = error_report[k][1]

(* C13: every key of the report returned by analyze_errors has a non-empty
   list, so a category without a match is no key; the expanders, the chart,
   the sample question and the ranking only read the report, so this is
   still so after them: every bar of the chart has a positive height and
   every ranked item a non-empty list. *)
C13_KeysNonEmpty ==
  /\ \A k \in 1..Len(error_report) : error_report[k][2] # <<>>
  /\ pc = "analyzed" =>
       \A c \in Categories :
         (\E k \in 1..Len(error_report) : error_report[k][1] = c)
           <=> (\E r \in 1..Len(df) : RowMatches(df, r, c))
  /\ \A i \in 1..Len(chart_bars(error_report)) : chart_bars(error_report)[i][2] >= 1
  /\ \A k \in 1..Len(top_errors) : top_errors[k][2] # <<>>

\* the readers have all run on a report that holds some categories and
\* lacks others, from rows of which one matched nothing
C13_Witness ==
  /\ pc = "ranked"
  /\ error_report # <<>>
  /\ Len(error_report) < Len(error_patterns)
  /\ \E r \in 1..Len(df) : \A c \in Categories : ~RowMatches(df, r, c)
  /\ Len(chart_bars(error_report)) = Len(error_report)

(* C12: of every generated text, the passage shown is the trimmed text before
   the first marker and the answers are the trimmed text behind the first
   marker, all of it, also when the marker occurs again; without a marker the
   passage is the whole trimmed text and the answers are the fixed text. *)
C12_AnswersAreAllBehindFirstMarker ==
  pc = "parsed" =>
    LET full_text == session_state[passage_key("Vocabulary", 0)]
        at == find(Marker, full_text, 1)
    IN IF at = 0
       THEN /\ passage_text = strip(full_text)
            /\ answers_text = Unavailable
       ELSE /\ passage_text = strip(SubSeq(full_text, 1, at - 1))
            /\ answers_text = strip(SubSeq(full_text, at + Len(Marker), Len(full_text)))

\* what the code does with the answers: they end at the second marker
C12_AnswersEndAtSecondMarker ==
  pc = "parsed" =>
    LET full_text == session_state[passage_key("Vocabulary", 0)]
        at == find(Marker, full_text, 1)
        rest == SubSeq(full_text, at + Len(Marker), Len(full_text))
        again == find(Marker, rest, 1)
    IN IF at = 0
       THEN /\ passage_text = strip(full_text)
            /\ answers_text = Unavailable
       ELSE /\ passage_text = strip(SubSeq(full_text, 1, at - 1))
            /\ answers_text = strip(IF again = 0 THEN rest ELSE SubSeq(rest, 1, again - 1))

\* a text with the marker twice and an answer behind each has been parsed
C12_TwoMarkers ==
  /\ pc = "parsed"
  /\ session_state[passage_key("Vocabulary", 0)] = <<"P">> \o Marker \o <<"P">> \o Marker
  /\ answers_text = <<"P">>

(* ------------------------------ C17 ------------------------------------- *)
\* the units a session can hold: a category at a slot of the ranking
Units == Categories \X (0..2)

\* the transcript of a unit, empty when the unit has none
TranscriptOf(ss, u) == IF chat_key(u[1], u[2]) \in DOMAIN ss THEN ss[chat_key(u[1], u[2])] ELSE <<>>

(* C17: in every transcript an assistant entry stands right behind a user
   entry, so a transcript starts with a user entry and holds no two assistant
   entries in a row; two user entries in a row stand only where the reply to
   the first has raised; and a step keeps every transcript as a prefix of
   what it is afterwards. *)
C17_Alternation ==
  \A ck \in KeysOf("chat", session_state) :
    LET t == session_state[ck]
    IN /\ \A i \in 1..Len(t) :
            t[i].role = "assistant" => (i > 1 /\ t[i - 1].role = "user")
       /\ \A i \in 1..(Len(t) - 1) :
            (t[i].role = "user" /\ t[i + 1].role = "user") => <<ck, i>> \in reply_failed

C17_PrefixKept ==
  \A ck \in KeysOf("chat", session_state) :
    /\ ck \in DOMAIN session_state'
    /\ Len(session_state'[ck]) >= Len(session_state[ck])
    /\ SubSeq(session_state'[ck], 1, Len(session_state[ck])) = session_state[ck]

C17_TranscriptShape == [](C17_Alternation) /\ [][C17_PrefixKept]_vars

\* a transcript with a user turn whose reply raised, the user turn asked
\* next and the reply to it
C17_Witness ==
  \E ck \in KeysOf("chat", session_state) :
    LET t == session_state[ck]
    IN /\ Len(t) = 3
       /\ t[1].role = "user"
       /\ t[2].role = "user"
       /\ t[3].role = "assistant"
       /\ <<ck, 1>> \in reply_failed

(* ------------------------------ C18 ------------------------------------- *)
(* C18: a unit with a non-empty transcript has its passage cached, and while
   a follow-up call is in flight the first entry of the history it was given
   is the cached passage of the unit, a text the generator returned. *)
C18_ContentBeforeChat ==
  /\ \A u \in Units :
       TranscriptOf(session_state, u) # <<>> =>
         /\ passage_key(u[1], u[2]) \in DOMAIN session_state
         /\ session_state[passage_key(u[1], u[2])] \in Passages
  /\ pc = "gen_reply" =>
       /\ CurPassage \in DOMAIN session_state
       /\ session_state[CurPassage] \in Passages
       /\ request.conversation_history # <<>>
       /\ request.conversation_history[1] = [role |-> "assistant", content |-> session_state[CurPassage]]

\* a follow-up call is in flight for one unit while another unit of the
\* ranking has no passage and no transcript
C18_Witness ==
  /\ pc = "gen_reply"
  /\ \E k \in 1..Len(top_errors) :
       /\ passage_key(top_errors[k][1], k - 1) \notin DOMAIN session_state
       /\ chat_key(top_errors[k][1], k - 1) \notin DOMAIN session_state

(* ------------------------------ C19 ------------------------------------- *)
\* the passage, the reveal flag and the transcript of unit u are the same
\* before and after the step
UnitKept(u) ==
  \A k \in {passage_key(u[1], u[2]), reveal_key(u[1], u[2]), chat_key(u[1], u[2])} :
    /\ (k \in DOMAIN session_state') <=> (k \in DOMAIN session_state)
    /\ k \in DOMAIN session_state => session_state'[k] = session_state[k]

(* C19: a step of the practice loop on one unit, whichever it is, leaves the
   passage, the reveal flag and the transcript of every other unit as they
   were; a step outside the loop leaves those of every unit. *)
C19_OtherUnitsKept ==
  [][\A u \in Units :
       (pc = "idle" \/ u # <<CurErr, idx>>) => UnitKept(u)]_vars

\* two units have each been chatted with and one of them revealed
C19_Witness ==
  \E u, v \in Units :
    /\ u # v
    /\ TranscriptOf(session_state, u) # <<>>
    /\ TranscriptOf(session_state, v) # <<>>
    /\ reveal_key(u[1], u[2]) \in DOMAIN session_state
    /\ session_state[reveal_key(u[1], u[2])] = TRUE

(* ------------------------------ C11 ------------------------------------- *)
(* C11: the history a follow-up call is given is the cached passage as one
   assistant entry and behind it the last min(5, n) entries of the
   transcript in their order, n being the length of the transcript with the
   user turn appended; so it has at most 6 entries, starts with the passage
   and ends with the user turn just appended. *)
C11_BoundedHistory ==
  pc = "gen_reply" =>
    LET t == session_state[CurChat]
        n == Len(t)
        k == IF n < 5 THEN n ELSE 5
        h == request.conversation_history
    IN /\ Len(h) = k + 1
       /\ Len(h) <= 6
       /\ h[1] = [role |-> "assistant", content |-> session_state[CurPassage]]
       /\ \A j \in 1..k : h[j + 1] = t[n - k + j]
       /\ n >= 1
       /\ h[Len(h)] = [role |-> "user", content |-> prompt[2]]

\* the fourth prompt of a conversation whose first three were answered: the
\* transcript has seven entries, the history the passage and the last five
C11_Witness ==
  /\ pc = "gen_reply"
  /\ Len(session_state[CurChat]) = 7
  /\ Len(request.conversation_history) = 6
  /\ request.conversation_history[2] = session_state[CurChat][3]
  /\ session_state[CurChat][1].content # session_state[CurChat][3].content

(* ------------------------------ C15 ------------------------------------- *)
(* C15: while the follow-up call of a unit is in flight, whatever the user
   does on the page, the passage and the reveal flag of the unit stay as they
   are and its transcript changes in one way only: the reply of the call is
   appended when the call returns. As long as the call is in flight, and when
   it raises, the whole session state stays as it is. *)
C15_InFlightIsolated ==
  [][pc = "gen_reply" =>
       /\ CurPassage \in DOMAIN session_state'
       /\ session_state'[CurPassage] = session_state[CurPassage]
       /\ reveal_key(CurErr, idx) \in DOMAIN session_state'
       /\ session_state'[reveal_key(CurErr, idx)] = session_state[reveal_key(CurErr, idx)]
       /\ CurChat \in DOMAIN session_state'
       /\ IF pc' = "gen_reply" \/ Raises
          THEN session_state' = session_state
          ELSE \E text \in Replies :
                 session_state' = append_turn(session_state, CurChat, "assistant", text)]_vars

\* during the follow-up call of a unit the user has pressed the reveal
\* button of that unit, whose answers are still hidden
C15_Witness ==
  /\ pc = "gen_reply"
  /\ queued = <<btn_key(CurErr, idx), NoPrompt>>
  /\ session_state[reveal_key(CurErr, idx)] = FALSE

=============================================================================
